---- MODULE Spec2Model ----
(***************************************************************************)
(* Quote Tool Backend (server.js): the pricing policy, the mobilization    *)
(* calculator, the eligibility flags and the /submitQuote handler with its *)
(* two fire-and-forget notification tasks.                                 *)
(*                                                                         *)
(* JavaScript values are records [t, v, s]: t is the type tag, v the value *)
(* of a finite number in fixed point (v / Unit), s the pieces of a string. *)
(***************************************************************************)
EXTENDS Integers, Sequences, FiniteSets, TLC

VARIABLES
    mailer,      \* module variable `mailer`: "null" until initMailer has run
    sheetsUrl,   \* process.env.SHEETS_WEBHOOK_URL is set
    fetchRef,    \* module variable `fetchRef`: "null" | "loaded"
    hpc,         \* the handler of the submission in flight: "idle" | "done"
    received,    \* req.body of the submission in flight, as it arrived
    payload,     \* the same object as the handler left it (payload.meta is written)
    service,     \* const service of the handler
    flags,       \* const flags of the handler
    quote,       \* the quote object both collaborators are handed
    resp,        \* the response sent to the caller: "none" | "ok" | "error"
    emailSt,     \* sendInternalEmail: "idle" | "skipped" | "rejected" | "sending" | "sent" | "failed"
    emailCalls,  \* mailer.sendMail invocations for this submission
    emailSeen,   \* what the email template read of the tuple
    hookSt,      \* logToSheets: "idle" | "skipped" | "getFetch" | "posting" | "reading" | "done" | "failed"
    hookCalls,   \* fetch(url, ...) invocations for this submission
    hookSeen,    \* what JSON.stringify(body) read of the tuple
    log,         \* console lines written for this submission
    pricingIn,   \* pricing sweep: the call's arguments
    pricingOut,  \* pricing sweep: the call's result
    mobIn,       \* mobilization sweep: the call's arguments
    mobOut       \* mobilization sweep: the call's result

vars == <<mailer, sheetsUrl, fetchRef, hpc, received, payload, service, flags, quote, resp,
          emailSt, emailCalls, emailSeen, hookSt, hookCalls, hookSeen, log,
          pricingIn, pricingOut, mobIn, mobOut>>

mainVars == <<mailer, sheetsUrl, fetchRef, hpc, received, payload, service, flags, quote, resp,
              emailSt, emailCalls, emailSeen, hookSt, hookCalls, hookSeen, log>>

(***************************************************************************)
(* Bounds of the model.                                                    *)
(***************************************************************************)
AcreScale == 2
MileScale == 10
MaxAcres == 302
MaxMiles == 50
MaxAddOns == 2
MaxFeatures == 2

\* One unit of a JavaScript number: acreage has resolution 1/AcreScale and
\* the factor tables two decimals, so every product below is exact.
Unit == AcreScale * 100 * 100

(***************************************************************************)
(* JavaScript values and the operators the code applies to them.           *)
(***************************************************************************)
Num(n) == [t |-> "num", v |-> n, s |-> <<>>]
Dollars(d) == Num(d * Unit)
Hundredths(h) == Num(h * (Unit \div 100))
Acres(a) == Num(a * (Unit \div AcreScale))
NaNV == [t |-> "nan", v |-> 0, s |-> <<>>]
InfV == [t |-> "inf", v |-> 0, s |-> <<>>]
Null == [t |-> "null", v |-> 0, s |-> <<>>]
Undef == [t |-> "undefined", v |-> 0, s |-> <<>>]
Tok(k, n, f) == [k |-> k, n |-> n, f |-> f]
Str(toks) == [t |-> "str", v |-> 0, s |-> toks]
\* a string literal
Text(txt) == Str(<<Tok("txt", 0, txt)>>)
\* a function object, such as Object.prototype.toString
Fn(name) == [t |-> "fn", v |-> 0, s |-> <<Tok("fn", 0, name)>>]

\* String(x) as the pieces of the text
ToTokens(x) ==
    CASE x.t = "str" -> x.s
      [] x.t = "fn" -> x.s
      [] x.t = "num" -> <<Tok("num", x.v, "")>>
      [] OTHER -> <<Tok(x.t, 0, "")>>

\* typeof x === "number"
IsNumberType(x) == x.t \in {"num", "nan", "inf"}

\* x is falsy: undefined, null, 0, NaN, ""
Falsy(x) ==
    \/ x.t \in {"undefined", "null", "nan"}
    \/ x.t = "num" /\ x.v = 0
    \/ x.t = "str" /\ x.s = <<>>

\* x || d
JsOr(x, d) == IF Falsy(x) THEN d ELSE x

\* x ?? d
JsNullish(x, d) == IF x.t \in {"undefined", "null"} THEN d ELSE x

\* a * b for fixed-point a, b >= 0, without leaving 32 bits
MulFix(a, b) == (a \div Unit) * b + ((a % Unit) * b) \div Unit

\* x * y: ToNumber of a function or of undefined is NaN
JsMul(x, y) ==
    IF x.t = "num" /\ y.t = "num" THEN Num(MulFix(x.v, y.v))
    ELSE IF x.t = "null" /\ y.t \in {"num", "null"} THEN Num(0)
    ELSE IF y.t = "null" /\ x.t = "num" THEN Num(0)
    ELSE NaNV

\* x + y: string concatenation as soon as one side is a string or an object
JsAdd(x, y) ==
    IF x.t \in {"str", "fn"} \/ y.t \in {"str", "fn"}
    THEN Str(ToTokens(x) \o ToTokens(y))
    ELSE IF x.t \in {"num", "null"} /\ y.t \in {"num", "null"} THEN Num(x.v + y.v)
    ELSE IF x.t = "inf" /\ y.t \in {"num", "null", "inf"} THEN InfV
    ELSE IF y.t = "inf" /\ x.t \in {"num", "null"} THEN InfV
    ELSE NaNV

\* x === y
JsStrictEq(x, y) == x.t # "nan" /\ y.t # "nan" /\ x = y

\* the property names every object literal inherits from Object.prototype
ObjectPrototypeKeys == {"toString", "constructor", "valueOf", "hasOwnProperty"}

\* String(x) as a property name; the model looks up string literals only
KeyOf(x) == IF x.t = "str" /\ Len(x.s) = 1 /\ x.s[1].k = "txt" THEN x.s[1].f ELSE "?"

\* table[key] on an object literal: own property, inherited property, or undefined
JsGet(table, key) ==
    IF key \in DOMAIN table THEN table[key]
    ELSE IF key \in ObjectPrototypeKeys THEN Fn(key)
    ELSE Undef

\* Math.round(x) of x >= 0 given in 1/scale units: ties round up
JsRound(x, scale) == (2 * x + scale) \div (2 * scale)

Max(a, b) == IF a >= b THEN a ELSE b

(***************************************************************************)
(* Pricing config and add-ons.                                             *)
(***************************************************************************)
LIDAR_SMALL_THRESHOLD == 35
LIDAR_SMALL_RATE == 100
LIDAR_MINIMUM == 2000
LIDAR_LARGE_RATE == 45
LIDAR_BASE_FEE == 3500

PHOTO_SMALL_THRESHOLD == 35
PHOTO_SMALL_RATE == 40
PHOTO_MINIMUM == 800
PHOTO_LARGE_RATE == 20
PHOTO_BASE_FEE == 1400

MANUAL_ACRES == 300

LIDAR_DENSITY_FACTORS ==
    "8" :> Hundredths(90) @@ "20" :> Hundredths(100) @@ "40" :> Hundredths(115)
    @@ "60" :> Hundredths(125) @@ "250" :> Hundredths(160)
LIDAR_ACCURACY_FACTORS ==
    "0.5" :> Hundredths(90) @@ "0.3" :> Hundredths(100) @@ "0.1" :> Hundredths(115)
PHOTO_GSD_FACTORS ==
    "6in" :> Hundredths(85) @@ "3in" :> Hundredths(100) @@ "1in" :> Hundredths(125)

ADD_ONS ==
    "dtm" :> Dollars(450) @@ "las" :> Dollars(450) @@ "contours2ft" :> Dollars(450)
    @@ "intensityGeoTIFF" :> Dollars(450) @@ "dsm" :> Dollars(450)
    @@ "planimetric" :> Dollars(1200)

\* mutant: no typeof test; isFinite and Math.max coerce the string "120"
clampNumber_NoTypeCheck(n) ==
    IF n = Text("120") THEN Acres(120 * AcreScale)
    ELSE IF n.t # "num" THEN Num(0) ELSE Num(Max(0, n.v))

\* clampNumber(n)
clampNumber(n) == IF n.t # "num" THEN Num(0) ELSE Num(Max(0, n.v))

\* mutant: the small tier ends before 35 acres (< for <=)
computeLidarBase_StrictThreshold(acres) ==
    IF acres.v < LIDAR_SMALL_THRESHOLD * Unit
    THEN Num(Max(LIDAR_MINIMUM * Unit, acres.v * LIDAR_SMALL_RATE))
    ELSE IF acres.v <= MANUAL_ACRES * Unit
    THEN Num(acres.v * LIDAR_LARGE_RATE + LIDAR_BASE_FEE * Unit)
    ELSE Null

\* computeLidarBase(acres), acres a finite number
computeLidarBase(acres) ==
    IF acres.v <= LIDAR_SMALL_THRESHOLD * Unit
    THEN Num(Max(LIDAR_MINIMUM * Unit, acres.v * LIDAR_SMALL_RATE))
    ELSE IF acres.v <= MANUAL_ACRES * Unit
    THEN Num(acres.v * LIDAR_LARGE_RATE + LIDAR_BASE_FEE * Unit)
    ELSE Null

\* computePhotoBase(acres)
computePhotoBase(acres) ==
    IF acres.v <= PHOTO_SMALL_THRESHOLD * Unit
    THEN Num(Max(PHOTO_MINIMUM * Unit, acres.v * PHOTO_SMALL_RATE))
    ELSE IF acres.v <= MANUAL_ACRES * Unit
    THEN Num(acres.v * PHOTO_LARGE_RATE + PHOTO_BASE_FEE * Unit)
    ELSE Null

\* a quote's breakdown; a field the code never sets is Undef
NoKeys == [kind |-> "absent", keys |-> <<>>]
Breakdown(base) ==
    [base |-> base, densityFactor |-> Undef, accuracyFactor |-> Undef,
     addOns |-> NoKeys, addOnsTotal |-> Undef, gsd |-> Undef, factor |-> Undef,
     mobilizationMiles |-> Undef, mobilizationCharge |-> Undef]

ManualQuote == [threw |-> FALSE, manualQuote |-> TRUE, price |-> Null, breakdown |-> Breakdown(Null)]
Thrown == [threw |-> TRUE, manualQuote |-> FALSE, price |-> Undef, breakdown |-> Breakdown(Undef)]

\* (ADD_ONS[k] || 0)
AddOnFee(k) == JsOr(JsGet(ADD_ONS, k), Num(0))

\* addOns.forEach(k => addOnsTotal += (ADD_ONS[k] || 0)) from the i-th key on
RECURSIVE SumAddOns(_, _, _)
SumAddOns(keys, i, total) ==
    IF i > Len(keys) THEN total
    ELSE SumAddOns(keys, i + 1, JsAdd(total, AddOnFee(keys[i])))

\* calcLidar(acres, opts); opts.addOns that is no array makes forEach throw
calcLidar(acres, opts) ==
    LET base == computeLidarBase(acres)
        densityFactor ==
            JsNullish(JsGet(LIDAR_DENSITY_FACTORS, KeyOf(JsOr(opts.density, Text("20")))),
                      Hundredths(100))
        accuracyFactor ==
            JsNullish(JsGet(LIDAR_ACCURACY_FACTORS, KeyOf(JsOr(opts.accuracy, Text("0.3")))),
                      Hundredths(100))
        addOns == IF opts.addOns.kind = "absent" THEN [kind |-> "list", keys |-> <<>>] ELSE opts.addOns
        addOnsTotal == SumAddOns(addOns.keys, 1, Num(0))
        price == JsAdd(JsMul(JsMul(base, densityFactor), accuracyFactor), addOnsTotal)
    IN  IF base = Null THEN ManualQuote
        ELSE IF addOns.kind # "list" THEN Thrown
        ELSE [threw |-> FALSE, manualQuote |-> FALSE, price |-> price,
              breakdown |-> [Breakdown(base) EXCEPT !.densityFactor = densityFactor,
                                                    !.accuracyFactor = accuracyFactor,
                                                    !.addOns = addOns,
                                                    !.addOnsTotal = addOnsTotal]]

\* calcPhoto(acres, opts)
calcPhoto(acres, opts) ==
    LET base == computePhotoBase(acres)
        gsd == JsOr(opts.gsd, Text("3in"))
        factor == JsNullish(JsGet(PHOTO_GSD_FACTORS, KeyOf(gsd)), Hundredths(100))
    IN  IF base = Null THEN ManualQuote
        ELSE [threw |-> FALSE, manualQuote |-> FALSE, price |-> JsMul(base, factor),
              breakdown |-> [Breakdown(base) EXCEPT !.gsd = gsd, !.factor = factor]]

(***************************************************************************)
(* Mobilization.  A centroid is [kind, miles]: what payload.aoi carries    *)
(* and, for a coordinate pair, the distance turf.distance gives from       *)
(* BUDA_TX in 1/MileScale miles.                                           *)
(***************************************************************************)
FREE_MILES == 30
MOB_BASE_FEE == 250

Centroid(kind, miles) == [kind |-> kind, miles |-> miles]

\* calcMobilizationMiles(centroidLonLat)
calcMobilizationMiles(c) ==
    CASE c.kind \in {"missing", "notArray", "wrongLength"} -> 0  \* the Array.isArray / length guard
      [] c.kind = "badCoords" -> 0                                \* turf.point throws: catch
      [] c.kind = "nonFinite" -> 0                                \* isFinite(miles) fails
      [] OTHER -> IF c.miles > 0 THEN c.miles ELSE 0

\* mutant: Math.floor for Math.round
calcMobilizationCharge_Floors(c, on) ==
    LET miles == calcMobilizationMiles(c)
        over == Max(0, miles - FREE_MILES * MileScale)
    IN  IF ~on THEN [miles |-> 0, charge |-> 0]
        ELSE IF miles <= FREE_MILES * MileScale THEN [miles |-> miles, charge |-> 0]
        ELSE [miles |-> miles, charge |-> MOB_BASE_FEE + over \div MileScale]

\* calcMobilizationCharge(centroidLonLat, on)
calcMobilizationCharge(c, on) ==
    LET miles == calcMobilizationMiles(c)
        over == Max(0, miles - FREE_MILES * MileScale)
    IN  IF ~on THEN [miles |-> 0, charge |-> 0]
        ELSE IF miles <= FREE_MILES * MileScale THEN [miles |-> miles, charge |-> 0]
        ELSE [miles |-> miles, charge |-> MOB_BASE_FEE + JsRound(over, MileScale)]

(***************************************************************************)
(* Sweeps of the pure functions: Init draws the arguments, one action per  *)
(* function applies it.                                                    *)
(***************************************************************************)
Opts(density, accuracy, addOns, gsd) ==
    [density |-> density, accuracy |-> accuracy, addOns |-> addOns, gsd |-> gsd]
DefaultOpts == Opts(Undef, Undef, NoKeys, Undef)

\* add-on keys a client may send: two of the catalog with different fees, one
\* no object has, one every object inherits
AddOnKeys == {"dtm", "planimetric", "orthomosaic", "toString"}
KeyLists == UNION {[1..n -> AddOnKeys] : n \in 0..MaxAddOns}
AddOnInputs ==
    {NoKeys, [kind |-> "notArray", keys |-> <<>>]} \cup {[kind |-> "list", keys |-> l] : l \in KeyLists}

DensityInputs == {Undef, Text("40"), Text("250"), Text("99"), Text("toString")}
AccuracyInputs == {Undef, Text("0.1"), Text("constructor")}
GsdInputs == {Undef, Text("1in"), Text("6in"), Text("2in"), Text("valueOf")}

SweepAcres == {Acres(a) : a \in 0..(MaxAcres * AcreScale)}

PricingInputs ==
    {[svc |-> "lidar", acres |-> a, opts |-> Opts(d, Undef, NoKeys, Undef)] :
        a \in SweepAcres, d \in {Undef, Text("250")}}
    \cup {[svc |-> "photo", acres |-> a, opts |-> Opts(Undef, Undef, NoKeys, g)] :
        a \in SweepAcres, g \in {Undef, Text("6in")}}
    \cup {[svc |-> "lidar", acres |-> Acres(a * AcreScale), opts |-> Opts(d, c, k, Undef)] :
        a \in {20, 301}, d \in DensityInputs, c \in AccuracyInputs, k \in AddOnInputs}
    \cup {[svc |-> "photo", acres |-> Acres(a * AcreScale), opts |-> Opts(Undef, Undef, NoKeys, g)] :
        a \in {10, 301}, g \in GsdInputs}

NoCall == [done |-> FALSE, q |-> Thrown]

MobInputs ==
    {[on |-> on, centroid |-> c] :
        on \in BOOLEAN,
        c \in {Centroid(k, 0) : k \in {"missing", "notArray", "wrongLength", "badCoords", "nonFinite"}}
              \cup {Centroid("pair", m) : m \in 0..(MaxMiles * MileScale)}}

NoMob == [done |-> FALSE, miles |-> 0, charge |-> 0]

CallCalcLidar ==
    /\ pricingIn.svc = "lidar" /\ ~pricingOut.done
    /\ pricingOut' = [done |-> TRUE, q |-> calcLidar(pricingIn.acres, pricingIn.opts)]
    /\ UNCHANGED <<mainVars, pricingIn, mobIn, mobOut>>

CallCalcPhoto ==
    /\ pricingIn.svc = "photo" /\ ~pricingOut.done
    /\ pricingOut' = [done |-> TRUE, q |-> calcPhoto(pricingIn.acres, pricingIn.opts)]
    /\ UNCHANGED <<mainVars, pricingIn, mobIn, mobOut>>

CallCalcMobilizationCharge ==
    /\ ~mobOut.done
    /\ LET r == calcMobilizationCharge(mobIn.centroid, mobIn.on)
       IN  mobOut' = [done |-> TRUE, miles |-> r.miles, charge |-> r.charge]
    /\ UNCHANGED <<mainVars, pricingIn, pricingOut, mobIn>>

(***************************************************************************)
(* POST /submitQuote.                                                      *)
(***************************************************************************)
Meta(kind, requestId) == [kind |-> kind, requestId |-> requestId]

\* mutant: the identifier is assigned whether or not one is present
NormalizeMeta_AlwaysGenerates(meta, generated) ==
    IF meta.kind = "primitive" THEN meta ELSE Meta("object", generated)

\* payload.meta = payload.meta || {}; if (!payload.meta.requestId) ... = makeRequestId()
\* A truthy primitive meta keeps no property: the write is dropped (the file
\* is not in strict mode).
NormalizeMeta(meta, generated) ==
    CASE meta.kind = "absent" -> Meta("object", generated)
      [] meta.kind = "object" /\ Falsy(meta.requestId) -> Meta("object", generated)
      [] OTHER -> meta

\* payload?.meta?.requestId
ReadRequestId(meta) == IF meta.kind = "object" THEN meta.requestId ELSE Undef

\* String.prototype.toLowerCase on the service names the model sends
LowerCase(txt) ==
    CASE txt = "Photogrammetry" -> "photogrammetry"
      [] txt = "LiDAR" -> "lidar"
      [] OTHER -> txt

\* String(payload?.options?.service || "lidar").toLowerCase()
ServiceOf(p) == LowerCase(KeyOf(JsOr(p.service, Text("lidar"))))

\* features.some(f => turf.booleanIntersects(f, AUTO_AREA)) from the i-th
\* feature on; a feature is "in", "out" or "bad" (booleanIntersects throws)
RECURSIVE SomeIntersects(_, _)
SomeIntersects(list, i) ==
    IF i > Len(list) THEN "false"
    ELSE IF list[i] = "bad" THEN "throw"
    ELSE IF list[i] = "in" THEN "true"
    ELSE SomeIntersects(list, i + 1)

\* mutant: the catch block answers false
ServiceAreaCheck_CatchFalse(features) ==
    IF features.kind = "absent" THEN "null"
    ELSE IF features.kind = "notArray" THEN "false"
    ELSE IF Len(features.list) = 0 THEN "null"
    ELSE LET r == SomeIntersects(features.list, 1)
         IN  IF r = "throw" THEN "false" ELSE r

\* the service area check with its try/catch: "true" | "false" | "null"
ServiceAreaCheck(features) ==
    IF features.kind = "absent" THEN "null"
    ELSE IF features.kind = "notArray" THEN "null"   \* .some is not a function: catch
    ELSE IF Len(features.list) = 0 THEN "null"
    ELSE LET r == SomeIntersects(features.list, 1)
         IN  IF r = "throw" THEN "null" ELSE r

\* the check ended in its catch block
ServiceAreaCheckFailed(features) ==
    \/ features.kind = "notArray"
    \/ features.kind = "list" /\ SomeIntersects(features.list, 1) = "throw"

\* mutant: inServiceArea !== false for inServiceArea === true
Flags_UnknownCounts(acres, inServiceArea) ==
    LET areaOver300Acres == acres.v > MANUAL_ACRES * Unit
    IN  [areaOver300Acres |-> areaOver300Acres,
         inServiceArea |-> inServiceArea,
         autoQuoteEligible |-> (~areaOver300Acres) /\ (inServiceArea # "false")]

\* const flags = { areaOver300Acres, inServiceArea, autoQuoteEligible }
Flags(acres, inServiceArea) ==
    LET areaOver300Acres == acres.v > MANUAL_ACRES * Unit
    IN  [areaOver300Acres |-> areaOver300Acres,
         inServiceArea |-> inServiceArea,
         autoQuoteEligible |-> (~areaOver300Acres) /\ (inServiceArea = "true")]

\* the if / else if / else choosing the calculator
QuoteFor(svc, acres, opts) ==
    IF svc = "lidar" THEN calcLidar(acres, opts)
    ELSE IF svc = "photo" \/ svc = "photogrammetry" THEN calcPhoto(acres, opts)
    ELSE calcLidar(acres, opts)

\* the mobilization block: the charge joins the price of a priced quote, the
\* miles and the charge join every breakdown
WithMobilization(q, mob) ==
    LET b == [q.breakdown EXCEPT !.mobilizationMiles = Num(JsRound(mob.miles, MileScale) * Unit),
                                 !.mobilizationCharge = Dollars(mob.charge)]
    IN  IF ~q.manualQuote /\ IsNumberType(q.price)
        THEN [q EXCEPT !.price = JsAdd(q.price, Dollars(mob.charge)), !.breakdown = b]
        ELSE [q EXCEPT !.breakdown = b]

NoFlags == [areaOver300Acres |-> FALSE, inServiceArea |-> "null", autoQuoteEligible |-> FALSE]
NoPayload ==
    [meta |-> Meta("absent", Undef), acres |-> Undef, service |-> Undef, opts |-> DefaultOpts,
     mobOn |-> FALSE, centroid |-> Centroid("missing", 0),
     features |-> [kind |-> "absent", list |-> <<>>]]

\* what a collaborator read of the tuple { payload, flags, service, quote }
NotSeen == [read |-> FALSE, requestId |-> Undef, quote |-> Thrown, flags |-> NoFlags]
Seen(p, f, q) == [read |-> TRUE, requestId |-> ReadRequestId(p.meta), quote |-> q, flags |-> f]

\* the template of sendInternalEmail throws: a.centroid_lonlat.join is no
\* function when the centroid is truthy and no array
EmailRenderThrows(p) == p.centroid.kind = "notArray"

\* sendInternalEmail(...) up to its first await, as [st, calls, seen]
EmailDispatch(p, f, q) ==
    IF mailer = "null" THEN [st |-> "skipped", calls |-> 0, seen |-> NotSeen]
    ELSE IF EmailRenderThrows(p) THEN [st |-> "rejected", calls |-> 0, seen |-> NotSeen]
    ELSE [st |-> "sending", calls |-> 1, seen |-> Seen(p, f, q)]

\* logToSheets(...) up to its first await
HookDispatch == IF ~sheetsUrl THEN "skipped" ELSE "getFetch"

\* mutant: the handler awaits sendInternalEmail before it answers
Acknowledge_AwaitsEmail(email, hook) == IF email = "sending" THEN "none" ELSE "ok"

\* what the handler answers once both collaborators are started
Acknowledge(email, hook) == "ok"

(***************************************************************************)
(* The submissions the model sends.  Each family varies some fields over   *)
(* every combination and holds the others at a plain value.                *)
(***************************************************************************)
ClientId == Text("client-1")
GenIds == {Text("1730000000000-k3x9q2ab"), Text("1730000000000-p0d4mz7c")}

MetaInputs ==
    {Meta("absent", Undef), Meta("primitive", Undef), Meta("object", Undef),
     Meta("object", Str(<<>>)), Meta("object", ClientId)}

AcresInputs ==
    {Undef, Text("120"), NaNV, InfV, Acres(0 - 5 * AcreScale), Acres(20 * AcreScale),
     Acres(MANUAL_ACRES * AcreScale), Acres(MANUAL_ACRES * AcreScale + 1)}

CentroidInputs ==
    {Centroid(k, 0) : k \in {"missing", "notArray", "wrongLength", "badCoords", "nonFinite"}}
    \cup {Centroid("pair", m) : m \in {25 * MileScale, 30 * MileScale + MileScale \div 2, 45 * MileScale}}

FeatureKinds == {"in", "out", "bad"}
FeatureInputs ==
    {[kind |-> "absent", list |-> <<>>], [kind |-> "notArray", list |-> <<>>]}
    \cup {[kind |-> "list", list |-> l] : l \in UNION {[1..n -> FeatureKinds] : n \in 0..MaxFeatures}}

OneFeature == [kind |-> "list", list |-> <<"in">>]

ServiceOpts ==
    {[service |-> sv, opts |-> Opts(d, Undef, k, Undef)] :
        sv \in {Undef, Text("sonar")}, d \in {Undef, Text("40"), Text("toString")}, k \in AddOnInputs}
    \cup {[service |-> sv, opts |-> Opts(Undef, Undef, NoKeys, g)] :
        sv \in {Text("photo"), Text("Photogrammetry")}, g \in {Undef, Text("1in"), Text("valueOf")}}

Payloads ==
    \* acreage, centroid and geometry, well-formed or not, in every combination
    {[meta |-> Meta("object", ClientId), acres |-> a, service |-> Undef, opts |-> DefaultOpts,
      mobOn |-> on, centroid |-> c, features |-> f] :
        a \in AcresInputs, on \in BOOLEAN, c \in CentroidInputs, f \in FeatureInputs}
    \* service and options, priced and manual, with and without a charge
    \cup {[meta |-> Meta("object", ClientId), acres |-> a, service |-> so.service, opts |-> so.opts,
           mobOn |-> on, centroid |-> Centroid("pair", 45 * MileScale), features |-> OneFeature] :
        a \in {Acres(20 * AcreScale), Acres(MANUAL_ACRES * AcreScale + 1)}, so \in ServiceOpts,
        on \in BOOLEAN}
    \* metadata
    \cup {[meta |-> m, acres |-> Acres(20 * AcreScale), service |-> Undef,
           opts |-> Opts(Undef, Undef, k, Undef), mobOn |-> FALSE, centroid |-> c,
           features |-> OneFeature] :
        m \in MetaInputs, k \in {NoKeys, [kind |-> "notArray", keys |-> <<>>]},
        c \in {Centroid("missing", 0), Centroid("notArray", 0)}}

(***************************************************************************)
(* The server.                                                             *)
(***************************************************************************)
Init ==
    /\ mailer = "null"
    /\ sheetsUrl \in BOOLEAN
    /\ fetchRef = "null"
    /\ hpc = "idle"
    /\ received = NoPayload /\ payload = NoPayload
    /\ service = ""
    /\ flags = NoFlags
    /\ quote = Thrown
    /\ resp = "none"
    /\ emailSt = "idle" /\ emailCalls = 0 /\ emailSeen = NotSeen
    /\ hookSt = "idle" /\ hookCalls = 0 /\ hookSeen = NotSeen
    /\ log = {}
    /\ pricingIn = [svc |-> "none", acres |-> Num(0), opts |-> DefaultOpts]
    /\ pricingOut = NoCall
    /\ mobIn = [on |-> FALSE, centroid |-> Centroid("missing", 0)]
    /\ mobOut = NoMob

sweepVars == <<pricingIn, pricingOut, mobIn, mobOut>>

\* await initMailer(); app.listen(PORT)
Start ==
    /\ mailer = "null"
    /\ mailer' = "transport"
    /\ UNCHANGED <<sheetsUrl, fetchRef, hpc, received, payload, service, flags, quote, resp, emailSt,
                   emailCalls, emailSeen, hookSt, hookCalls, hookSeen, log, sweepVars>>

\* app.post("/submitQuote"): the handler has no await, it runs to its response
SubmitQuote ==
    /\ mailer # "null" /\ hpc = "idle"
    /\ \E p \in Payloads, g \in GenIds :
        LET p1 == [p EXCEPT !.meta = NormalizeMeta(p.meta, g)]
            acres == clampNumber(JsOr(p.acres, Num(0)))
            svc == ServiceOf(p)
            inServiceArea == ServiceAreaCheck(p.features)
            warned == IF ServiceAreaCheckFailed(p.features) THEN {"Service-area check failed"} ELSE {}
            q0 == QuoteFor(svc, acres, p.opts)
            mob == calcMobilizationCharge(p.centroid, p.mobOn)
            q == WithMobilization(q0, mob)
            f == Flags(acres, inServiceArea)
            email == EmailDispatch(p1, f, q)
            hook == HookDispatch
        IN  /\ hpc' = "done"
            /\ received' = p
            /\ payload' = p1
            /\ service' = svc
            /\ IF q0.threw
               THEN \* catch (err): nothing was dispatched
                    /\ resp' = "error"
                    /\ log' = warned \cup {"Error"}
                    /\ UNCHANGED <<flags, quote, emailSt, emailCalls, emailSeen, hookSt>>
               ELSE /\ flags' = f
                    /\ quote' = q
                    /\ emailSt' = email.st /\ emailCalls' = emailCalls + email.calls
                    /\ emailSeen' = email.seen
                    /\ hookSt' = hook
                    /\ resp' = Acknowledge(email.st, hook)
                    /\ log' = warned
    /\ UNCHANGED <<mailer, sheetsUrl, fetchRef, hookCalls, hookSeen, sweepVars>>

\* .catch(err => console.error("Email error:", err)) of a template that threw
EmailCatch ==
    /\ emailSt = "rejected"
    /\ emailSt' = "failed"
    /\ log' = log \cup {"Email error"}
    /\ UNCHANGED <<mailer, sheetsUrl, fetchRef, hpc, received, payload, service, flags, quote, resp,
                   emailCalls, emailSeen, hookSt, hookCalls, hookSeen, sweepVars>>

\* await mailer.sendMail(...) resolves
EmailDelivered ==
    /\ emailSt = "sending"
    /\ emailSt' = "sent"
    /\ UNCHANGED <<mailer, sheetsUrl, fetchRef, hpc, received, payload, service, flags, quote, resp,
                   emailCalls, emailSeen, hookSt, hookCalls, hookSeen, log, sweepVars>>

\* mutant: a rejected sendMail is tried again
AfterSendMailRejected_Retries(calls) == [st |-> "sending", calls |-> calls + 1]

\* the state of the email task after sendMail rejected, as [st, calls]
AfterSendMailRejected(calls) == [st |-> "failed", calls |-> calls]

\* await mailer.sendMail(...) rejects: the .catch logs it
EmailRejected ==
    /\ emailSt = "sending"
    /\ emailSt' = AfterSendMailRejected(emailCalls).st
    /\ emailCalls' = AfterSendMailRejected(emailCalls).calls
    /\ log' = log \cup {"Email error"}
    /\ UNCHANGED <<mailer, sheetsUrl, fetchRef, hpc, received, payload, service, flags, quote, resp,
                   emailSeen, hookSt, hookCalls, hookSeen, sweepVars>>

\* const fetch = await getFetch(); then fetch(url, { body: JSON.stringify(body) })
HookGetFetch ==
    /\ hookSt = "getFetch"
    /\ \/ /\ fetchRef' = "loaded"
          /\ hookSt' = "posting"
          /\ hookCalls' = hookCalls + 1
          /\ hookSeen' = Seen(payload, flags, quote)
          /\ log' = log
       \/ \* import("node-fetch") rejects: the catch of logToSheets logs it
          /\ fetchRef = "null"
          /\ hookSt' = "failed"
          /\ log' = log \cup {"Sheets webhook error"}
          /\ UNCHANGED <<fetchRef, hookCalls, hookSeen>>
    /\ UNCHANGED <<mailer, sheetsUrl, hpc, received, payload, service, flags, quote, resp,
                   emailSt, emailCalls, emailSeen, sweepVars>>

\* await fetch(...) resolves, or rejects into the catch
HookResponded ==
    /\ hookSt = "posting"
    /\ \/ hookSt' = "reading" /\ log' = log
       \/ hookSt' = "failed" /\ log' = log \cup {"Sheets webhook error"}
    /\ UNCHANGED <<mailer, sheetsUrl, fetchRef, hpc, received, payload, service, flags, quote, resp,
                   emailSt, emailCalls, emailSeen, hookCalls, hookSeen, sweepVars>>

\* await resp.text() resolves and is logged, or rejects into the catch
HookRead ==
    /\ hookSt = "reading"
    /\ \/ hookSt' = "done" /\ log' = log \cup {"Sheets webhook"}
       \/ hookSt' = "failed" /\ log' = log \cup {"Sheets webhook error"}
    /\ UNCHANGED <<mailer, sheetsUrl, fetchRef, hpc, received, payload, service, flags, quote, resp,
                   emailSt, emailCalls, emailSeen, hookCalls, hookSeen, sweepVars>>

EmailSettled == emailSt \in {"idle", "skipped", "sent", "failed"}
HookSettled == hookSt \in {"idle", "skipped", "done", "failed"}

\* the submission's objects are dropped once nothing refers to them; the
\* module variables stay
Discard ==
    /\ hpc = "done" /\ EmailSettled /\ HookSettled
    /\ hpc' = "idle"
    /\ received' = NoPayload
    /\ payload' = NoPayload
    /\ service' = ""
    /\ flags' = NoFlags
    /\ quote' = Thrown
    /\ resp' = "none"
    /\ emailSt' = "idle" /\ emailCalls' = 0 /\ emailSeen' = NotSeen
    /\ hookSt' = "idle" /\ hookCalls' = 0 /\ hookSeen' = NotSeen
    /\ log' = {}
    /\ UNCHANGED <<mailer, sheetsUrl, fetchRef, sweepVars>>

Next ==
    \/ Start
    \/ SubmitQuote
    \/ EmailCatch
    \/ EmailDelivered
    \/ EmailRejected
    \/ HookGetFetch
    \/ HookResponded
    \/ HookRead
    \/ Discard

Spec == Init /\ [][Next]_vars

InitPricingSweep ==
    /\ mailer = "null" /\ sheetsUrl = FALSE /\ fetchRef = "null" /\ hpc = "idle"
    /\ received = NoPayload /\ payload = NoPayload /\ service = "" /\ flags = NoFlags /\ quote = Thrown
    /\ resp = "none"
    /\ emailSt = "idle" /\ emailCalls = 0 /\ emailSeen = NotSeen
    /\ hookSt = "idle" /\ hookCalls = 0 /\ hookSeen = NotSeen
    /\ log = {}
    /\ pricingIn \in PricingInputs
    /\ pricingOut = NoCall
    /\ mobIn = [on |-> FALSE, centroid |-> Centroid("missing", 0)]
    /\ mobOut = NoMob

NextPricing == CallCalcLidar \/ CallCalcPhoto

SpecPricing == InitPricingSweep /\ [][NextPricing]_vars

InitMobilizationSweep ==
    /\ mailer = "null" /\ sheetsUrl = FALSE /\ fetchRef = "null" /\ hpc = "idle"
    /\ received = NoPayload /\ payload = NoPayload /\ service = "" /\ flags = NoFlags /\ quote = Thrown
    /\ resp = "none"
    /\ emailSt = "idle" /\ emailCalls = 0 /\ emailSeen = NotSeen
    /\ hookSt = "idle" /\ hookCalls = 0 /\ hookSeen = NotSeen
    /\ log = {}
    /\ pricingIn = [svc |-> "none", acres |-> Num(0), opts |-> DefaultOpts]
    /\ pricingOut = NoCall
    /\ mobIn \in MobInputs
    /\ mobOut = NoMob

NextMobilization == CallCalcMobilizationCharge

SpecMobilization == InitMobilizationSweep /\ [][NextMobilization]_vars

(***************************************************************************)
(* The claims.                                                             *)
(***************************************************************************)

\* C3: the base is the tiered function of the clamped acreage a: lidar
\* max(2000, 100a) on [0, 35] and 45a + 3500 on (35, 300], photogrammetry
\* max(800, 40a) and 20a + 1400; the result is the manual-quote sentinel
\* (manual, price null, base null) exactly when a > 300.
C3_BaseTiers ==
    (pricingOut.done /\ ~pricingOut.q.threw) =>
        LET a == pricingIn.acres.v
            q == pricingOut.q
            lidar == pricingIn.svc = "lidar"
            minimum == IF lidar THEN 2000 ELSE 800
            small == IF lidar THEN 100 ELSE 40
            large == IF lidar THEN 45 ELSE 20
            fee == IF lidar THEN 3500 ELSE 1400
        IN  /\ (a <= 35 * Unit => q.breakdown.base = Num(Max(minimum * Unit, small * a)))
            /\ (a > 35 * Unit /\ a <= 300 * Unit => q.breakdown.base = Num(large * a + fee * Unit))
            /\ (q.manualQuote <=> a > 300 * Unit)
            /\ (q.manualQuote => q.price = Null /\ q.breakdown.base = Null)

\* a lidar job of 35.5 acres was priced on the large tier
C3_Witness ==
    /\ pricingOut.done /\ pricingIn.svc = "lidar"
    /\ pricingIn.acres = Acres(35 * AcreScale + 1)
    /\ ~pricingOut.q.manualQuote
    /\ pricingOut.q.breakdown.base.v > 5000 * Unit

\* C5: mobilization off gives {miles: 0, charge: 0} whatever the centroid;
\* on, the charge is 0 up to 30 miles and 250 + round(distance - 30) beyond
\* (45 miles gives 265); a missing or malformed centroid gives distance 0
\* and charge 0.
C5_Mobilization ==
    mobOut.done =>
        LET d == mobIn.centroid.miles
            pair == mobIn.centroid.kind = "pair"
            over == d - 30 * MileScale
        IN  /\ (~mobIn.on => mobOut.miles = 0 /\ mobOut.charge = 0)
            /\ (mobIn.on /\ pair /\ d <= 30 * MileScale => mobOut.charge = 0)
            /\ (mobIn.on /\ pair /\ d > 30 * MileScale =>
                    \E r \in 0..(MaxMiles + 1) :
                        /\ 2 * r * MileScale - MileScale <= 2 * over
                        /\ 2 * over < 2 * r * MileScale + MileScale
                        /\ mobOut.charge = 250 + r)
            /\ (mobIn.on /\ pair /\ d = 45 * MileScale => mobOut.charge = 265)
            /\ (mobIn.on /\ ~pair => mobOut.miles = 0 /\ mobOut.charge = 0)

\* a requested mobilization 45 miles out was charged 265
C5_Witness ==
    /\ mobOut.done /\ mobIn.on /\ mobIn.centroid = Centroid("pair", 45 * MileScale)
    /\ mobOut.charge = 265

\* the catalog fee of a key, 0 for a key the catalog does not list
CatalogFee(k) == IF k \in DOMAIN ADD_ONS THEN ADD_ONS[k].v ELSE 0

RECURSIVE CatalogSum(_, _)
CatalogSum(keys, i) == IF i > Len(keys) THEN 0 ELSE CatalogFee(keys[i]) + CatalogSum(keys, i + 1)

IsPermutation(l1, l2) ==
    /\ Len(l1) = Len(l2)
    /\ \A k \in AddOnKeys :
        Cardinality({i \in 1..Len(l1) : l1[i] = k}) = Cardinality({i \in 1..Len(l2) : l2[i] = k})

\* C9: in calcLidar the add-on total is the sum of the catalog fees of the
\* selected keys: a key the catalog does not list contributes exactly 0,
\* and the total is the same for every ordering of the selection.
C9_AddOnsTotal ==
    (pricingOut.done /\ pricingIn.svc = "lidar" /\ ~pricingOut.q.threw /\ ~pricingOut.q.manualQuote) =>
        LET keys == pricingIn.opts.addOns.keys
            total == pricingOut.q.breakdown.addOnsTotal
        IN  /\ total = Num(CatalogSum(keys, 1))
            /\ \A l \in KeyLists : IsPermutation(l, keys) => SumAddOns(l, 1, Num(0)) = total

\* the acreage the handler computes with
ClampedAcres == clampNumber(JsOr(received.acres, Num(0)))

PhotoService == service \in {"photo", "photogrammetry"}

\* the one fault the model's submissions raise between Normalize and
\* Dispatch: calcLidar reaches addOns.forEach on a selection that is no array
InternalFault ==
    /\ received.opts.addOns.kind = "notArray"
    /\ ~PhotoService
    /\ ClampedAcres.v <= 300 * Unit

\* C1: once Normalize and Evaluate complete, the caller has {status: "ok"}
\* whatever the collaborators do: while they are pending, if they never
\* complete, and when they fail; no completion precedes the response.
C1_AckWithoutWaiting ==
    /\ (hpc = "done" /\ ~InternalFault) => resp = "ok"
    /\ (emailSt \in {"rejected", "sending", "sent", "failed"}) => resp = "ok"
    /\ (hookSt \in {"getFetch", "posting", "reading", "done", "failed"}) => resp = "ok"

\* the caller is answered while sendMail and the webhook are both pending
C1_Witness == resp = "ok" /\ emailSt = "sending" /\ hookSt = "getFetch"

C2_Inv ==
    /\ emailCalls <= 1 /\ hookCalls <= 1
    /\ (emailSt = "failed" => "Email error" \in log /\ resp = "ok")
    /\ (hookSt = "failed" => "Sheets webhook error" \in log /\ resp = "ok")
    /\ (emailSt \in {"rejected", "failed"} => hookSt # "idle")
    /\ (hookSt = "failed" => emailSt # "idle")

C2_Step ==
    hpc' = "done" =>
        /\ (emailSt = "failed" => emailSt' = "failed" /\ emailCalls' = emailCalls)
        /\ (hookSt = "failed" => hookSt' = "failed" /\ hookCalls' = hookCalls)
        /\ (resp = "ok" => resp' = "ok")
        /\ (emailSt = "failed" /\ hookSt \in {"getFetch", "posting", "reading"} => ENABLED (HookGetFetch \/ HookResponded \/ HookRead))

\* C2: per submission sendMail and the webhook POST are each invoked at most
\* once and never again after a failure; a failure of either is caught and
\* logged, leaves the caller's response "ok" and does not keep the other
\* collaborator from running.
C2_AtMostOnceIsolated == [](C2_Inv) /\ [][C2_Step]_vars

\* the email failed after its one invocation and the webhook went on to finish
C2_Witness ==
    /\ emailSt = "failed" /\ emailCalls = 1
    /\ hookSt = "done" /\ hookCalls = 1
    /\ resp = "ok"

\* the price the breakdown gives back, with the code's operators
Reconstructed(q, photo) ==
    LET b == q.breakdown
    IN  IF photo THEN JsAdd(JsMul(b.base, b.factor), b.mobilizationCharge)
        ELSE JsAdd(JsAdd(JsMul(JsMul(b.base, b.densityFactor), b.accuracyFactor), b.addOnsTotal),
                   b.mobilizationCharge)

\* C4: for every submission that yields a non-manual quote, the breakdown
\* handed to the collaborators reconstructs the price: lidar price = base *
\* densityFactor * accuracyFactor + addOnsTotal + mobilizationCharge,
\* photogrammetry price = base * factor + mobilizationCharge.
C4_BreakdownReconstructsPrice ==
    /\ (resp = "ok" /\ ~quote.manualQuote) =>
            JsStrictEq(quote.price, Reconstructed(quote, PhotoService))
    /\ (emailSeen.read /\ ~emailSeen.quote.manualQuote) =>
            JsStrictEq(emailSeen.quote.price, Reconstructed(emailSeen.quote, PhotoService))
    /\ (hookSeen.read /\ ~hookSeen.quote.manualQuote) =>
            JsStrictEq(hookSeen.quote.price, Reconstructed(hookSeen.quote, PhotoService))

\* C6: autoQuoteEligible is true only when areaOver300Acres is false and
\* inServiceArea is exactly true, never when it is null or false; and
\* areaOver300Acres is true exactly when the clamped acreage exceeds 300.
C6_Flags ==
    resp = "ok" =>
        /\ (flags.autoQuoteEligible => ~flags.areaOver300Acres /\ flags.inServiceArea = "true")
        /\ (flags.inServiceArea \in {"null", "false"} => ~flags.autoQuoteEligible)
        /\ (flags.areaOver300Acres <=> ClampedAcres.v > 300 * Unit)
        /\ (emailSeen.read => emailSeen.flags = flags)
        /\ (hookSeen.read => hookSeen.flags = flags)

\* a submission under 300 acres with unknown service area was flagged not eligible
C6_Witness ==
    /\ resp = "ok" /\ hookSeen.read
    /\ flags.inServiceArea = "null" /\ ~flags.areaOver300Acres /\ ~flags.autoQuoteEligible

\* the feature set as the submission carried it
IsEmptySet(fs) == fs.kind = "absent" \/ (fs.kind = "list" /\ Len(fs.list) = 0)
HasMalformed(fs) ==
    fs.kind = "notArray" \/ (fs.kind = "list" /\ \E i \in 1..Len(fs.list) : fs.list[i] = "bad")
HasIntersecting(fs) == fs.kind = "list" /\ \E i \in 1..Len(fs.list) : fs.list[i] = "in"
\* a feature the check fails on comes before every intersecting one
FailsBeforeHit(fs) ==
    \/ fs.kind = "notArray"
    \/ /\ fs.kind = "list"
       /\ \E i \in 1..Len(fs.list) :
            fs.list[i] = "bad" /\ \A j \in 1..(i - 1) : fs.list[j] # "in"

\* C7 as stated: inServiceArea is null if the feature set is empty or the
\* intersection check fails on any feature; otherwise true if any feature
\* intersects the service area and false if none does.
C7_ServiceArea ==
    resp = "ok" =>
        LET fs == received.features
        IN  flags.inServiceArea =
                IF IsEmptySet(fs) \/ HasMalformed(fs) THEN "null"
                ELSE IF HasIntersecting(fs) THEN "true" ELSE "false"

\* C7 amended: inServiceArea is null if the feature set is empty or the
\* check fails on a feature reached before any intersecting one (features
\* are checked in order and the check stops at the first that intersects);
\* otherwise true if any feature intersects and false if none does.
C7_ServiceAreaInOrder ==
    resp = "ok" =>
        LET fs == received.features
        IN  flags.inServiceArea =
                IF IsEmptySet(fs) \/ FailsBeforeHit(fs) THEN "null"
                ELSE IF HasIntersecting(fs) THEN "true" ELSE "false"

\* the check failed on the second feature, after one that does not intersect
C7_Witness ==
    /\ resp = "ok" /\ received.features = [kind |-> "list", list |-> <<"out", "bad">>]
    /\ flags.inServiceArea = "null" /\ "Service-area check failed" \in log

AcreageAnomaly == received.acres.t # "num"
CentroidAnomaly == received.centroid.kind # "pair"
GeometryAnomaly == HasMalformed(received.features)
BaseAtZero == IF PhotoService THEN Dollars(800) ELSE Dollars(2000)

C10_RequestIdStable ==
    hpc = "done" =>
        LET given == ReadRequestId(received.meta)
            id == ReadRequestId(payload.meta)
        IN  /\ (~Falsy(given) => id = given)
            /\ (id \in GenIds => Falsy(given))
            /\ (emailSeen.read => emailSeen.requestId = id)
            /\ (hookSeen.read => hookSeen.requestId = id)
            /\ (emailSeen.read /\ hookSeen.read => emailSeen.requestId = hookSeen.requestId)

\* an identifier was generated and both collaborators read it
C10_Witness ==
    /\ hpc = "done" /\ received.meta.kind = "absent"
    /\ ReadRequestId(payload.meta) \in GenIds
    /\ emailSeen.read /\ hookSeen.read
    /\ emailSeen.requestId = hookSeen.requestId

====
